---- MODULE Spec2Model ----
(***************************************************************************)
(* Transactional fund-allocation subsystem (prisma/transactions.ts).       *)
(*                                                                         *)
(* The store is one PostgreSQL database reached through Prisma.  Each of   *)
(* the four workflows runs its callback inside prisma.$transaction at      *)
(* isolation level Serializable: every read of the callback sees the       *)
(* snapshot taken when the transaction starts, its writes are kept aside   *)
(* and become visible only at commit, and a transaction that read or wrote *)
(* a row which another transaction changed and committed after the         *)
(* snapshot is aborted with a serialization failure.  A callback that      *)
(* throws is rolled back: none of its writes is applied.                   *)
(***************************************************************************)
EXTENDS Integers, Sequences, FiniteSets, TLC

\* ------------------------------------------------------------------ bounds

\* Number of workflow invocations started in one behaviour of Spec.
MaxCalls == 3

\* --------------------------------------------------------------- identities

\* Rows of the member table (owned by the identity subsystem, never written).
ActiveMembers == {"m1", "m2"}
InactiveMembers == {"m3"}
Members == ActiveMembers \cup InactiveMembers
\* Identifiers a caller may pass; "m0" has no member row.
MemberIds == Members \cup {"m0"}

\* The approving member passed as adminMemberId.
AdminIds == {"admin"}

\* Amounts a caller may pass (amountAllocated, amount): the type is number.
Amounts == {-1, 0, 1, 2}

\* Batches handed to bulkComplaintRegistrationTransaction (memberId of each entry).
Batches == {<<"m1", "m2">>, <<"m2", "m2">>, <<"m0">>}

\* memberId and complaintId a caller passes to processPaymentTransaction.
PayMemberIds == {"m1", "m2"}
PayComplaintIds == {1}

\* Worker processes serving requests concurrently.
Procs == {"p1", "p2"}
ScenarioProcs == {"p1", "p2", "p3", "p4"}
AllProcs == Procs \cup ScenarioProcs

VARIABLES
    complaints,  \* committed Complaint rows, id = position: [memberId, status]
    funds,       \* committed ReliefFund rows: [memberId, totalAllocated, amountDispersed]
    approvals,   \* committed ApprovalRecord rows: [complaintId, approvedById, amountAllocated]
    payments,    \* committed Payment rows: [memberId, complaintId, amount, status, transactionId]
    tx,          \* per process: the transaction in flight
    result,      \* per process: what its last finished invocation returned or threw
    calls,       \* number of invocations started
    clock,       \* Date.now(), in milliseconds
    alerts,      \* committed Alert rows, id = position
    cache,       \* the Redis entry under the key "flood_alerts"
    redisReady,  \* isRedisReady()
    svc          \* per process: its call of the alert service

vars == <<complaints, funds, approvals, payments, tx, result, calls,
          clock, alerts, cache, redisReady, svc>>
db == <<complaints, funds, approvals, payments>>
\* What the transaction workflows never touch, except for reading the clock.
alertVars == <<alerts, cache, redisReady, svc>>

\* ------------------------------------------------------------ row helpers

\* Positions of the fund rows of member m.
FundRows(fs, m) == {i \in DOMAIN fs : fs[i].memberId = m}

\* tx.reliefFund.findUnique({ where: { memberId } }) found a row.
HasFund(fs, m) == FundRows(fs, m) # {}

\* The row findUnique returns.
FundOf(fs, m) == fs[CHOOSE i \in FundRows(fs, m) : TRUE]

\* reliefFund.totalAllocated.toNumber() - reliefFund.amountDispersed.toNumber()
AvailableBalance(f) == f.totalAllocated - f.amountDispersed

\* Keys of the rows a transaction reads or writes.
MemberKey(m) == <<"member", m>>
FundKey(m) == <<"fund", m>>
ComplaintKey(id) == <<"complaint", id>>

\* ------------------------------------------------------------- write log

Write(t, m, id, amt, by) ==
    [t |-> t, memberId |-> m, complaintId |-> id, amount |-> amt, by |-> by]

\* tx.complaint.create / createMany entry: status FILED.
ComplaintCreate(m) == Write("complaint.create", m, 0, 0, "")
\* tx.complaint.update({ data: { status: "APPROVED" } })
ComplaintApprove(id) == Write("complaint.update", "", id, 0, "")
\* tx.approvalRecord.create
ApprovalCreate(id, by, amt) == Write("approval.create", "", id, amt, by)
\* tx.reliefFund.create with zero balances
FundCreate(m) == Write("fund.create", m, 0, 0, "")
\* Faulty variant: the payment increments totalAllocated.
FundDisperse_WrongColumn(m, amt) == Write("fund.allocate", m, 0, amt, "")
\* tx.reliefFund.update amountDispersed increment
FundDisperse(m, amt) == Write("fund.disperse", m, 0, amt, "")
\* Faulty variant: the approval increments the wrong column.
FundAllocate_WrongColumn(m, amt) == FundDisperse(m, amt)
\* tx.reliefFund.update totalAllocated increment
FundAllocate(m, amt) == Write("fund.allocate", m, 0, amt, "")
\* transactionId: `TXN-${Date.now()}`
TransactionId(now) == <<"TXN", now>>

\* tx.payment.create with status COMPLETED
PaymentCreate(m, id, amt, now) ==
    [t |-> "payment.create", memberId |-> m, complaintId |-> id, amount |-> amt,
     by |-> "", transactionId |-> TransactionId(now)]

\* A new fund row holds zero balances.
NewFund(m) == [memberId |-> m, totalAllocated |-> 0, amountDispersed |-> 0]

\* Faulty variant: the complaint is written as an upsert keyed by its member,
\* so that a member's earlier complaints are overwritten.
ComplaintInsert_Upsert(cs, m) ==
    IF \E i \in DOMAIN cs : cs[i].memberId = m
    THEN [i \in DOMAIN cs |->
            IF cs[i].memberId = m THEN [memberId |-> m, status |-> "FILED"] ELSE cs[i]]
    ELSE Append(cs, [memberId |-> m, status |-> "FILED"])
\* tx.complaint.create / createMany: a new row with status "FILED".
ComplaintInsert(cs, m) == Append(cs, [memberId |-> m, status |-> "FILED"])

\* Faulty variant: the update has no where clause and changes every fund row.
FundMatches_All(row, m) == TRUE
\* tx.reliefFund.update({ where: { memberId } }): the row the update changes.
FundMatches(row, m) == row.memberId = m

\* The effect of one write on the committed rows d = [complaints, funds, approvals, payments].
ApplyWrite(d, w) ==
    CASE w.t = "complaint.create" ->
           [d EXCEPT !.complaints = ComplaintInsert(@, w.memberId)]
      [] w.t = "complaint.update" ->
           [d EXCEPT !.complaints[w.complaintId].status = "APPROVED"]
      [] w.t = "approval.create" ->
           [d EXCEPT !.approvals = Append(@, [complaintId |-> w.complaintId,
                                              approvedById |-> w.by,
                                              amountAllocated |-> w.amount])]
      [] w.t = "fund.create" ->
           [d EXCEPT !.funds = Append(@, NewFund(w.memberId))]
      [] w.t = "fund.allocate" ->
           [d EXCEPT !.funds = [i \in DOMAIN @ |->
                IF FundMatches(@[i], w.memberId)
                THEN [@[i] EXCEPT !.totalAllocated = @ + w.amount]
                ELSE @[i]]]
      [] w.t = "fund.disperse" ->
           [d EXCEPT !.funds = [i \in DOMAIN @ |->
                IF FundMatches(@[i], w.memberId)
                THEN [@[i] EXCEPT !.amountDispersed = @ + w.amount]
                ELSE @[i]]]
      [] w.t = "payment.create" ->
           [d EXCEPT !.payments = Append(@, [memberId |-> w.memberId,
                                             complaintId |-> w.complaintId,
                                             amount |-> w.amount,
                                             status |-> "COMPLETED",
                                             transactionId |-> w.transactionId])]

RECURSIVE ApplyLog(_, _)
ApplyLog(d, log) ==
    IF log = <<>> THEN d ELSE ApplyLog(ApplyWrite(d, Head(log)), Tail(log))

\* Keys of existing rows a log changes (inserted complaints, approvals and
\* payments get fresh ids nobody can have read).
RECURSIVE WriteKeys(_)
WriteKeys(log) ==
    IF log = <<>> THEN {}
    ELSE LET w == Head(log)
             k == CASE w.t \in {"fund.create", "fund.allocate", "fund.disperse"} ->
                         {FundKey(w.memberId)}
                    [] w.t = "complaint.update" -> {ComplaintKey(w.complaintId)}
                    [] OTHER -> {}
         IN  k \cup WriteKeys(Tail(log))

\* ------------------------------------------------------------ invocations

NoBatch == <<>>
Call(op, m, id, amt, by, sim, batch) ==
    [op |-> op, memberId |-> m, complaintId |-> id, amount |-> amt,
     by |-> by, simulateFailure |-> sim, batch |-> batch]

NoCall == Call("none", "", 0, 0, "", FALSE, NoBatch)
\* fileComplaintTransaction(memberId, complaintData)
FileCall(m) == Call("file", m, 0, 0, "", FALSE, NoBatch)
\* approveComplaintTransaction(complaintId, adminMemberId, amountAllocated)
ApproveCall(id, by, amt) == Call("approve", "", id, amt, by, FALSE, NoBatch)
\* processPaymentTransaction(memberId, complaintId, amount, simulateFailure)
PayCall(m, id, amt, sim) == Call("pay", m, id, amt, "", sim, NoBatch)
\* bulkComplaintRegistrationTransaction(complaints)
BulkCall(batch) == Call("bulk", "", 0, 0, "", FALSE, batch)

\* What a callback did: the error it threw ("ok" when it returned), the writes
\* it issued before that, the rows it read or wrote, and the counts it returns.
Outcome(kind, log, touched, available, requested, nc, nf) ==
    [kind |-> kind, log |-> log, touched |-> touched,
     available |-> available, requested |-> requested,
     complaintsCreated |-> nc, fundsInitialized |-> nf]

Thrown(kind, log, touched) == Outcome(kind, log, touched, 0, 0, 0, 0)
Returned(log, touched) == Outcome("ok", log, touched, 0, 0, 0, 0)
NoOutcome == Outcome("none", <<>>, {}, 0, 0, 0, 0)

\* ------------------------------------------------- workflow A: file complaint

\* if (!member) throw
MemberExists(m) == m \in Members
\* Faulty variant: the active flag is not checked.
MemberIsActive_Unchecked(m) == TRUE
\* if (!member.isActive) throw
MemberIsActive(m) == m \in ActiveMembers
\* Faulty variant: the test is inverted, if (existingFund).
NeedsFund_Inverted(fs, m) == HasFund(fs, m)
\* Faulty variant: the fund row is created without looking for an existing one.
NeedsFund_Always(fs, m) == TRUE
\* if (!existingFund) create
NeedsFund(fs, m) == ~HasFund(fs, m)

FileBody(snap, c) ==
    LET m == c.memberId
        read1 == {MemberKey(m)}
        log1 == <<ComplaintCreate(m)>>
        read2 == read1 \cup {FundKey(m)}
        log2 == IF NeedsFund(snap.funds, m) THEN Append(log1, FundCreate(m)) ELSE log1
    IN  IF ~MemberExists(m) THEN Thrown("MemberNotFound", <<>>, read1)
        ELSE IF ~MemberIsActive(m) THEN Thrown("MemberInactive", <<>>, read1)
        ELSE Returned(log2, read2)

\* ---------------------------------------------- workflow B: approve complaint

\* Faulty variant: the status guard is missing.
CanApprove_Any(status) == TRUE
\* if (complaint.status !== "FILED") throw
CanApprove(status) == status = "FILED"

ApproveBody(snap, c) ==
    LET id == c.complaintId
        found == id \in DOMAIN snap.complaints
        complaint == snap.complaints[id]
        owner == complaint.memberId
        \* findUniqueOrThrow with include member and member.reliefFund
        read1 == {ComplaintKey(id)}
        read2 == read1 \cup {MemberKey(owner), FundKey(owner)}
        log3 == <<ComplaintApprove(id), ApprovalCreate(id, c.by, c.amount)>>
        log4 == Append(log3, FundAllocate(owner, c.amount))
    IN  IF ~found THEN Thrown("ComplaintNotFound", <<>>, read1)
        ELSE IF ~CanApprove(complaint.status)
             THEN Thrown("InvalidStateTransition", <<>>, read2)
        \* reliefFund.update on a member without a fund row: record not found
        ELSE IF ~HasFund(snap.funds, owner) THEN Thrown("FundNotFound", log3, read2)
        ELSE Returned(log4, read2)

\* ----------------------------------------------- workflow C: process payment

\* Faulty variant: the comparison is reversed.
Insufficient_Reversed(amount, available) == amount < available
\* Faulty variant: a payment of exactly the available balance is refused.
Insufficient_OffByOne(amount, available) == amount >= available
\* if (amount > availableBalance) throw
Insufficient(amount, available) == amount > available

\* Faulty variant: the fund is fetched with the get-or-create step of workflow
\* A instead of findUniqueOrThrow.
PayBody_EnsuresFund(snap, c) ==
    LET m == c.memberId
        read1 == {FundKey(m)}
        exists == HasFund(snap.funds, m)
        available == IF exists THEN AvailableBalance(FundOf(snap.funds, m)) ELSE 0
        log == (IF exists THEN <<>> ELSE <<FundCreate(m)>>)
               \o <<PaymentCreate(m, c.complaintId, c.amount, snap.now), FundDisperse(m, c.amount)>>
    IN  IF Insufficient(c.amount, available)
        THEN Outcome("InsufficientBalance", <<>>, read1, available, c.amount, 0, 0)
        ELSE IF c.simulateFailure THEN Thrown("GatewayUnavailable", <<>>, read1)
        ELSE Returned(log, read1)

PayBody(snap, c) ==
    LET m == c.memberId
        read1 == {FundKey(m)}
        available == AvailableBalance(FundOf(snap.funds, m))
        log == <<PaymentCreate(m, c.complaintId, c.amount, snap.now), FundDisperse(m, c.amount)>>
    IN  IF ~HasFund(snap.funds, m) THEN Thrown("FundNotFound", <<>>, read1)
        ELSE IF Insufficient(c.amount, available)
             THEN Outcome("InsufficientBalance", <<>>, read1, available, c.amount, 0, 0)
        ELSE IF c.simulateFailure THEN Thrown("GatewayUnavailable", <<>>, read1)
        ELSE Returned(log, read1)

\* ------------------------------------------------- workflow D: bulk register

\* complaints.map(...) handed to complaint.createMany: one FILED row per entry.
\* The only unique key of a complaint is its generated id, so skipDuplicates
\* skips nothing.
RECURSIVE BulkComplaints(_)
BulkComplaints(batch) ==
    IF batch = <<>> THEN <<>>
    ELSE <<ComplaintCreate(Head(batch))>> \o BulkComplaints(Tail(batch))

\* memberIds.filter((id) => !existingMemberIds.has(id)) handed to
\* reliefFund.createMany with skipDuplicates: a memberId met again in the same
\* statement is skipped by the unique key on memberId.
\* Faulty variant: a memberId met again in the same batch is not skipped.
RECURSIVE BulkFunds_NoSkip(_, _, _)
BulkFunds_NoSkip(fs, ms, created) ==
    IF ms = <<>> THEN <<>>
    ELSE LET m == Head(ms)
         IN  IF NeedsFund(fs, m)
             THEN <<FundCreate(m)>> \o BulkFunds_NoSkip(fs, Tail(ms), created \cup {m})
             ELSE BulkFunds_NoSkip(fs, Tail(ms), created)

RECURSIVE BulkFunds(_, _, _)
BulkFunds(fs, ms, created) ==
    IF ms = <<>> THEN <<>>
    ELSE LET m == Head(ms)
         IN  IF NeedsFund(fs, m) /\ m \notin created
             THEN <<FundCreate(m)>> \o BulkFunds(fs, Tail(ms), created \cup {m})
             ELSE BulkFunds(fs, Tail(ms), created)

Range(s) == {s[i] : i \in DOMAIN s}

BulkBody(snap, c) ==
    LET ms == c.batch
        log1 == BulkComplaints(ms)
        read2 == {FundKey(m) : m \in Range(ms)}
        log2 == BulkFunds(snap.funds, ms, {})
    IN  \* complaint.memberId references a member row
        IF \E m \in Range(ms) : ~MemberExists(m)
        THEN Thrown("ForeignKeyViolation", <<>>, {})
        ELSE Outcome("ok", log1 \o log2, read2, 0, 0, Len(log1), Len(log2))

Body(snap, c) ==
    CASE c.op = "file" -> FileBody(snap, c)
      [] c.op = "approve" -> ApproveBody(snap, c)
      [] c.op = "pay" -> PayBody(snap, c)
      [] c.op = "bulk" -> BulkBody(snap, c)

\* -------------------------------------------------------- transaction state

\* waited and elapsed are the milliseconds the invocation spends waiting for the
\* transaction to start and running its callback.
IdleTx == [status |-> "idle", call |-> NoCall,
           snap |-> [complaints |-> <<>>, funds |-> <<>>, now |-> 0],
           out |-> NoOutcome, stale |-> {}, waited |-> 0, elapsed |-> 0]

Active(p) == tx[p].status = "active"

\* What the caller of the invocation gets.  fileComplaintTransaction rethrows
\* new Error("Transaction failed: ..."), the other three rethrow the error itself.
Result(c, kind, o) ==
    [op |-> c.op, kind |-> kind,
     wrapped |-> (c.op = "file" /\ kind # "ok"),
     available |-> IF kind = "InsufficientBalance" THEN o.available ELSE 0,
     requested |-> IF kind = "InsufficientBalance" THEN o.requested ELSE 0,
     complaintsCreated |-> IF kind = "ok" THEN o.complaintsCreated ELSE 0,
     fundsInitialized |-> IF kind = "ok" THEN o.fundsInitialized ELSE 0]

NoResult == Result(NoCall, "none", NoOutcome)

\* Faulty variant: the transactions run without the Serializable isolation level.
Serializable_Off(t) == TRUE
\* isolationLevel: Serializable: no row this transaction read or wrote was
\* changed by a transaction that committed after its snapshot.
Serializable(t) == t.stale \cap (t.out.touched \cup WriteKeys(t.out.log)) = {}

\* maxWait: 5000
MaxWait == 5000
\* timeout: 30000
WorkflowTimeout == 30000
\* timeout: 60000, // Longer timeout for batch operations
BulkTimeout == 60000

\* Faulty variant: the bulk registration runs with the timeout of the others.
TimeoutOf_Same(op) == WorkflowTimeout
\* The timeout option of each workflow.
TimeoutOf(op) == IF op = "bulk" THEN BulkTimeout ELSE WorkflowTimeout

\* The transaction did not start within maxWait or did not end within timeout.
TimedOut(t) == t.waited > MaxWait \/ t.elapsed > TimeoutOf(t.call.op)

\* The committed rows of the four tables.
Rows == [complaints |-> complaints, funds |-> funds,
         approvals |-> approvals, payments |-> payments]

\* Faulty variant: the writes were issued outside the transaction and stay.
RolledBack_Kept(d, log) == ApplyLog(d, log)
\* The rows after a transaction that issued the writes of log is rolled back.
RolledBack(d, log) == d

\* prisma.$transaction starts: the snapshot is taken and the callback runs on
\* it; w and e are the durations this invocation will take.
BeginTimed(p, c, w, e) ==
    /\ tx[p].status = "idle"
    /\ LET snap == [complaints |-> complaints, funds |-> funds, now |-> clock]
       IN  tx' = [tx EXCEPT ![p] = [status |-> "active", call |-> c, snap |-> snap,
                                     out |-> Body(snap, c), stale |-> {},
                                     waited |-> w, elapsed |-> e]]
    /\ result' = [result EXCEPT ![p] = NoResult]
    /\ UNCHANGED <<db, clock, alertVars>>

\* An invocation that stays far below its time bounds.
Begin(p, c) == BeginTimed(p, c, 0, 0)

\* The callback returned and the transaction commits: its writes are applied
\* together, and every transaction still in flight now has stale rows.
Commit(p) ==
    /\ Active(p)
    /\ ~TimedOut(tx[p])
    /\ tx[p].out.kind = "ok"
    /\ Serializable(tx[p])
    /\ LET d == ApplyLog(Rows, tx[p].out.log)
           changed == WriteKeys(tx[p].out.log)
       IN  /\ complaints' = d.complaints
           /\ funds' = d.funds
           /\ approvals' = d.approvals
           /\ payments' = d.payments
           /\ tx' = [q \in AllProcs |->
                       IF q = p THEN IdleTx
                       ELSE IF Active(q) THEN [tx[q] EXCEPT !.stale = @ \cup changed]
                       ELSE tx[q]]
    /\ result' = [result EXCEPT ![p] = Result(tx[p].call, "ok", tx[p].out)]
    /\ UNCHANGED <<calls, clock, alertVars>>

\* The callback returned but the store refuses the transaction (P2034): nothing
\* of it is applied.
SerializationFailure(p) ==
    /\ Active(p)
    /\ ~TimedOut(tx[p])
    /\ tx[p].out.kind = "ok"
    /\ ~Serializable(tx[p])
    /\ LET d == RolledBack(Rows, tx[p].out.log)
       IN  /\ complaints' = d.complaints
           /\ funds' = d.funds
           /\ approvals' = d.approvals
           /\ payments' = d.payments
    /\ tx' = [tx EXCEPT ![p] = IdleTx]
    /\ result' = [result EXCEPT ![p] =
                    Result(tx[p].call, "SerializationConflict", tx[p].out)]
    /\ UNCHANGED <<calls, clock, alertVars>>

\* The callback threw: the transaction is rolled back and the error reaches the
\* catch block of the workflow.
Rollback(p) ==
    /\ Active(p)
    /\ ~TimedOut(tx[p])
    /\ tx[p].out.kind # "ok"
    /\ LET d == RolledBack(Rows, tx[p].out.log)
       IN  /\ complaints' = d.complaints
           /\ funds' = d.funds
           /\ approvals' = d.approvals
           /\ payments' = d.payments
    /\ tx' = [tx EXCEPT ![p] = IdleTx]
    /\ result' = [result EXCEPT ![p] = Result(tx[p].call, tx[p].out.kind, tx[p].out)]
    /\ UNCHANGED <<calls, clock, alertVars>>

\* The transaction could not start within maxWait, or ran longer than timeout:
\* Prisma closes it (P2028), whatever the callback had written by then (a
\* prefix of its writes; nothing when it never started) is rolled back, and
\* the error reaches the catch block of the workflow.
Timeout(p) ==
    /\ Active(p)
    /\ TimedOut(tx[p])
    /\ \E n \in 0 .. (IF tx[p].waited > MaxWait THEN 0 ELSE Len(tx[p].out.log)) :
         LET d == RolledBack(Rows, SubSeq(tx[p].out.log, 1, n))
         IN  /\ complaints' = d.complaints
             /\ funds' = d.funds
             /\ approvals' = d.approvals
             /\ payments' = d.payments
    /\ tx' = [tx EXCEPT ![p] = IdleTx]
    /\ result' = [result EXCEPT ![p] =
                    Result(tx[p].call, "TransactionTimeout", tx[p].out)]
    /\ UNCHANGED <<calls, clock, alertVars>>

\* ------------------------------------------------------------ the workflows

\* A request arrives while fewer than MaxCalls have been served.
Arrives == calls < MaxCalls /\ calls' = calls + 1

FileComplaint(p) ==
    \E m \in MemberIds :
        /\ Arrives
        /\ Begin(p, FileCall(m))

\* The complaint ids a caller may name: those filed so far and one that is not.
ApproveComplaint(p) ==
    \E id \in 1 .. (Len(complaints) + 1), by \in AdminIds, amt \in Amounts :
        /\ Arrives
        /\ Begin(p, ApproveCall(id, by, amt))

ProcessPayment(p) ==
    \E m \in PayMemberIds, id \in PayComplaintIds, amt \in Amounts, sim \in BOOLEAN :
        /\ Arrives
        /\ Begin(p, PayCall(m, id, amt, sim))

BulkRegister(p) ==
    \E b \in Batches :
        /\ Arrives
        /\ Begin(p, BulkCall(b))

\* Callers of the alert service.
Callers == {"c1", "c2"}

\* No entry under the cache key.
NoEntry == [present |-> FALSE, value |-> <<>>]

\* What a call of the alert service gave back.
Return(kind, list) == [kind |-> kind, list |-> list]
NoReturn == Return("none", <<>>)

\* A caller that is not inside a call of the alert service.  mustSee is the
\* set of alerts whose createFloodAlert had returned when the call started.
IdleSvc == [pc |-> "idle", local |-> <<>>, mustSee |-> {}, newId |-> 0, ret |-> NoReturn]

\* No alert yet, nothing cached, Redis connected, the clock at its origin.
ServiceInit ==
    /\ clock = 0
    /\ alerts = <<>>
    /\ cache = NoEntry
    /\ redisReady = TRUE
    /\ svc = [c \in Callers |-> IdleSvc]

Init ==
    /\ complaints = <<>>
    /\ funds = <<>>
    /\ approvals = <<>>
    /\ payments = <<>>
    /\ tx = [p \in AllProcs |-> IdleTx]
    /\ result = [p \in AllProcs |-> NoResult]
    /\ calls = 0
    /\ ServiceInit

Next ==
    \E p \in Procs :
        \/ FileComplaint(p)
        \/ ApproveComplaint(p)
        \/ ProcessPayment(p)
        \/ BulkRegister(p)
        \/ Commit(p)
        \/ SerializationFailure(p)
        \/ Rollback(p)

Spec == Init /\ [][Next]_vars

\* ------------------------------------------------- concurrent payments

\* N workers each ask for 60 of a fund holding 100 allocated and nothing
\* dispersed (a complaint of m1 approved with 100).
PaymentRaceInit ==
    /\ complaints = <<[memberId |-> "m1", status |-> "APPROVED"]>>
    /\ funds = <<[memberId |-> "m1", totalAllocated |-> 100, amountDispersed |-> 0]>>
    /\ approvals = <<[complaintId |-> 1, approvedById |-> "admin", amountAllocated |-> 100]>>
    /\ payments = <<>>
    /\ tx = [p \in AllProcs |-> IdleTx]
    /\ result = [p \in AllProcs |-> NoResult]
    /\ calls = 0
    /\ ServiceInit

\* Each worker serves one request.
Fresh(p) == result[p] = NoResult /\ ~Active(p)

PaymentRequest(p) ==
    /\ Fresh(p)
    /\ Begin(p, PayCall("m1", 1, 60, FALSE))
    /\ UNCHANGED calls

PaymentRaceNext ==
    \E p \in ScenarioProcs :
        \/ PaymentRequest(p)
        \/ Commit(p)
        \/ SerializationFailure(p)
        \/ Rollback(p)

PaymentRaceSpec == PaymentRaceInit /\ [][PaymentRaceNext]_vars

\* ------------------------------------------- concurrent get-or-create of a fund

\* N workers each run the get-or-create step for m1, which has no fund row:
\* through fileComplaintTransaction or through a bulk registration naming m1.
EnsureFundFile(p) ==
    /\ Fresh(p)
    /\ Begin(p, FileCall("m1"))
    /\ UNCHANGED calls

EnsureFundBulk(p) ==
    \E b \in {<<"m1">>, <<"m1", "m1">>} :
        /\ Fresh(p)
        /\ Begin(p, BulkCall(b))
        /\ UNCHANGED calls

EnsureFundNext ==
    \E p \in ScenarioProcs :
        \/ EnsureFundFile(p)
        \/ EnsureFundBulk(p)
        \/ Commit(p)
        \/ SerializationFailure(p)

EnsureFundSpec == Init /\ [][EnsureFundNext]_vars

\* ------------------------------------------- a bulk registration run again

\* sampleComplaints of the example run: three complaints, one for each of three
\* members that exist and have no fund row.
ExampleBatch == <<"m1", "m2", "m3">>

\* Each worker registers the same batch once.
RegisterBatch(p) ==
    /\ Fresh(p)
    /\ Begin(p, BulkCall(ExampleBatch))
    /\ UNCHANGED calls

BulkRerunNext ==
    \E p \in ScenarioProcs :
        \/ RegisterBatch(p)
        \/ Commit(p)
        \/ SerializationFailure(p)

BulkRerunSpec == Init /\ [][BulkRerunNext]_vars

\* ------------------------------------------------------- time bounds

\* Waiting and running times around the bounds of the options.
Waits == {0, MaxWait, MaxWait + 1}
Durations == {0, WorkflowTimeout, WorkflowTimeout + 1, BulkTimeout, BulkTimeout + 1}

\* One invocation of each workflow.
TimedCalls == {FileCall("m1"), ApproveCall(1, "admin", 1),
               PayCall("m1", 1, 0, FALSE), BulkCall(<<"m1", "m2">>)}

\* Each worker serves one request, which takes some time.
TimedRequest(p) ==
    \E c \in TimedCalls, w \in Waits, e \in Durations :
        /\ Fresh(p)
        /\ BeginTimed(p, c, w, e)
        /\ UNCHANGED calls

TimeoutNext ==
    \E p \in Procs :
        \/ TimedRequest(p)
        \/ Commit(p)
        \/ SerializationFailure(p)
        \/ Rollback(p)
        \/ Timeout(p)

TimeoutSpec == Init /\ [][TimeoutNext]_vars

\* ------------------------------------------- two members side by side

\* m1 and m2 each have an approved complaint (allocation 2, nothing paid) and
\* a filed one.
IndependentInit ==
    /\ complaints = <<[memberId |-> "m1", status |-> "APPROVED"],
                      [memberId |-> "m2", status |-> "APPROVED"],
                      [memberId |-> "m1", status |-> "FILED"],
                      [memberId |-> "m2", status |-> "FILED"]>>
    /\ funds = <<[memberId |-> "m1", totalAllocated |-> 2, amountDispersed |-> 0],
                 [memberId |-> "m2", totalAllocated |-> 2, amountDispersed |-> 0]>>
    /\ approvals = <<[complaintId |-> 1, approvedById |-> "admin", amountAllocated |-> 2],
                     [complaintId |-> 2, approvedById |-> "admin", amountAllocated |-> 2]>>
    /\ payments = <<>>
    /\ tx = [p \in AllProcs |-> IdleTx]
    /\ result = [p \in AllProcs |-> NoResult]
    /\ calls = 0
    /\ ServiceInit

\* Worker p1 serves m1 and worker p2 serves m2.
OwnMember(p) == IF p = "p1" THEN "m1" ELSE "m2"
OwnApproved(p) == IF p = "p1" THEN 1 ELSE 2
OwnFiled(p) == IF p = "p1" THEN 3 ELSE 4

\* A payment to the worker's member (3 is more than the balance).
OwnPayment(p) ==
    \E amt \in {1, 2, 3} :
        /\ Fresh(p)
        /\ Begin(p, PayCall(OwnMember(p), OwnApproved(p), amt, FALSE))
        /\ UNCHANGED calls

\* An approval of the filed complaint of the worker's member.
OwnApproval(p) ==
    \E amt \in {1, 2} :
        /\ Fresh(p)
        /\ Begin(p, ApproveCall(OwnFiled(p), "admin", amt))
        /\ UNCHANGED calls

IndependentNext ==
    \E p \in Procs :
        \/ OwnPayment(p)
        \/ OwnApproval(p)
        \/ Commit(p)
        \/ Rollback(p)

IndependentSpec == IndependentInit /\ [][IndependentNext]_vars

\* ------------------------------------------- payments and the clock

\* Milliseconds that pass in one behaviour.
MaxClock == 2

\* A millisecond passes.
Tick ==
    /\ clock < MaxClock
    /\ clock' = clock + 1
    /\ UNCHANGED <<db, tx, result, calls, alertVars>>

\* Payments to m1 and to m2, served by two workers while the clock runs.
PaymentClockNext ==
    \/ Tick
    \/ \E p \in Procs :
          \/ OwnPayment(p)
          \/ Commit(p)
          \/ Rollback(p)

PaymentClockSpec == IndependentInit /\ [][PaymentClockNext]_vars

\* ------------------------------------------------------- the alert service

\* Number of alerts created in one behaviour.
MaxAlerts == 2

coreVars == <<complaints, funds, approvals, payments, tx, result, calls, clock>>

\* The row prisma.alert.create inserts; createdAt is a Date.
AlertRow(id) == [id |-> id, createdAt |-> <<"Date", id>>]

\* prisma.alert.findMany({ orderBy: { createdAt: "desc" } }): newest first.
FindMany(as) == [i \in DOMAIN as |-> as[Len(as) + 1 - i]]

\* JSON.stringify(value): a Date is written as its ISO string.
Stringify(list) ==
    [i \in DOMAIN list |-> [list[i] EXCEPT !.createdAt = <<"String", @[2]>>]]
\* JSON.parse(data): strings stay strings.
Parse(data) == data

AlertIds(list) == {list[i].id : i \in DOMAIN list}

Miss == [hit |-> FALSE, value |-> <<>>]
Hit(v) == [hit |-> TRUE, value |-> v]

\* Faulty variant: the entry is read without asking isRedisReady().
GetCache_NoReadyCheck(ready, throws, entry) ==
    IF throws THEN Miss
    ELSE IF entry.present THEN Hit(Parse(entry.value)) ELSE Miss
\* getCache(key): null when Redis is not ready, when redis.get throws and when
\* there is no entry.
GetCache(ready, throws, entry) ==
    IF ~ready THEN Miss
    ELSE IF throws THEN Miss
    ELSE IF entry.present THEN Hit(Parse(entry.value)) ELSE Miss

\* setCache(key, value, 300): skipped when Redis is not ready, errors swallowed.
SetCache(ready, throws, entry, value) ==
    IF ~ready \/ throws THEN entry
    ELSE [present |-> TRUE, value |-> Stringify(value)]

\* invalidateCache(key): skipped when Redis is not ready, errors swallowed.
InvalidateCache(ready, throws, entry) ==
    IF ~ready \/ throws THEN entry ELSE NoEntry

\* The alerts whose createFloodAlert call has returned.
Announced == AlertIds(alerts) \ {svc[d].newId : d \in {e \in Callers : svc[e].pc = "inv"}}

\* getFloodAlerts starts and asks the cache; a hit is returned at once.
GetFloodAlertsCache(c) ==
    /\ svc[c].pc = "idle"
    /\ \E throws \in BOOLEAN :
         LET got == GetCache(redisReady, throws, cache)
         IN  svc' = [svc EXCEPT ![c] =
                 IF got.hit
                 THEN [IdleSvc EXCEPT !.mustSee = Announced,
                                      !.ret = Return("ok", got.value)]
                 ELSE [IdleSvc EXCEPT !.pc = "db", !.mustSee = Announced]]
    /\ UNCHANGED <<coreVars, alerts, cache, redisReady>>

\* Fallback to the database: prisma.alert.findMany, which may fail.
GetFloodAlertsDb(c) ==
    /\ svc[c].pc = "db"
    /\ \E fails \in BOOLEAN :
         svc' = [svc EXCEPT ![c] =
                 IF fails
                 THEN [@ EXCEPT !.pc = "idle", !.ret = Return("DbError", <<>>)]
                 ELSE [@ EXCEPT !.pc = "set", !.local = FindMany(alerts)]]
    /\ UNCHANGED <<coreVars, alerts, cache, redisReady>>

\* await setCache(CACHE_KEY, typedAlerts, 300); return typedAlerts
GetFloodAlertsSet(c) ==
    /\ svc[c].pc = "set"
    /\ \E throws \in BOOLEAN :
         cache' = SetCache(redisReady, throws, cache, svc[c].local)
    /\ svc' = [svc EXCEPT ![c] = [@ EXCEPT !.pc = "idle", !.local = <<>>,
                                            !.ret = Return("ok", svc[c].local)]]
    /\ UNCHANGED <<coreVars, alerts, redisReady>>

\* Faulty variant: the new list is written into the cache with the insert.
CreateFloodAlertInsert_WriteThrough(c) ==
    /\ svc[c].pc = "idle"
    /\ Len(alerts) < MaxAlerts
    /\ alerts' = Append(alerts, AlertRow(Len(alerts) + 1))
    /\ cache' = SetCache(redisReady, FALSE, cache, FindMany(alerts'))
    /\ svc' = [svc EXCEPT ![c] = [IdleSvc EXCEPT !.pc = "inv",
                                                 !.newId = Len(alerts) + 1]]
    /\ UNCHANGED <<coreVars, redisReady>>

\* createFloodAlert starts: prisma.alert.create commits the row, or fails and
\* the call throws "Unable to create alert".
CreateFloodAlertInsert(c) ==
    /\ svc[c].pc = "idle"
    /\ Len(alerts) < MaxAlerts
    /\ \E fails \in BOOLEAN :
         IF fails
         THEN /\ alerts' = alerts
              /\ svc' = [svc EXCEPT ![c] = [IdleSvc EXCEPT !.ret = Return("CreateError", <<>>)]]
         ELSE /\ alerts' = Append(alerts, AlertRow(Len(alerts) + 1))
              /\ svc' = [svc EXCEPT ![c] = [IdleSvc EXCEPT !.pc = "inv",
                                                           !.newId = Len(alerts) + 1]]
    /\ UNCHANGED <<coreVars, cache, redisReady>>

\* await invalidateCache("flood_alerts"); return alert
CreateFloodAlertInvalidate(c) ==
    /\ svc[c].pc = "inv"
    /\ \E throws \in BOOLEAN :
         cache' = InvalidateCache(redisReady, throws, cache)
    /\ svc' = [svc EXCEPT ![c] = [@ EXCEPT !.pc = "idle", !.newId = 0,
                                            !.ret = Return("created", <<alerts[svc[c].newId]>>)]]
    /\ UNCHANGED <<coreVars, alerts, redisReady>>

\* The Redis connection drops or comes back.
RedisFlips ==
    /\ redisReady' = ~redisReady
    /\ UNCHANGED <<coreVars, alerts, cache, svc>>

\* The entry reaches its time to live of 300 seconds.
Expire ==
    /\ cache.present
    /\ cache' = NoEntry
    /\ UNCHANGED <<coreVars, alerts, redisReady, svc>>

AlertNext ==
    \/ RedisFlips
    \/ Expire
    \/ \E c \in Callers :
          \/ GetFloodAlertsCache(c)
          \/ GetFloodAlertsDb(c)
          \/ GetFloodAlertsSet(c)
          \/ CreateFloodAlertInsert(c)
          \/ CreateFloodAlertInvalidate(c)

AlertSpec == Init /\ [][AlertNext]_vars

\* ------------------------------------------- complaints without a fund row

\* Complaints inserted in one behaviour.
MaxComplaints == 3

\* bulkCreateComplaintsOptimized: one complaint.createMany outside any
\* transaction; FILED rows are inserted and no fund row is created.
BulkCreateComplaintsOptimized ==
    \E b \in {<<"m1">>, <<"m1", "m2">>} :
        /\ Len(complaints) + Len(b) <= MaxComplaints
        /\ complaints' = ApplyLog(Rows, BulkComplaints(b)).complaints
        /\ UNCHANGED <<funds, approvals, payments, tx, result, calls, clock, alertVars>>

\* An approval of one of the complaints, or of one that does not exist.
OrphanApproval(p) ==
    \E id \in 1 .. (Len(complaints) + 1), amt \in {1, 2} :
        /\ Begin(p, ApproveCall(id, "admin", amt))
        /\ UNCHANGED calls

OrphanNext ==
    \/ BulkCreateComplaintsOptimized
    \/ \E p \in Procs :
          \/ OrphanApproval(p)
          \/ Rollback(p)

OrphanSpec == Init /\ [][OrphanNext]_vars

\* ------------------------------------------- two calls for one member

\* m1 has an approved complaint (allocation 2, nothing paid) and two filed ones.
SameMemberInit ==
    /\ complaints = <<[memberId |-> "m1", status |-> "APPROVED"],
                      [memberId |-> "m1", status |-> "FILED"],
                      [memberId |-> "m1", status |-> "FILED"]>>
    /\ funds = <<[memberId |-> "m1", totalAllocated |-> 2, amountDispersed |-> 0]>>
    /\ approvals = <<[complaintId |-> 1, approvedById |-> "admin", amountAllocated |-> 2]>>
    /\ payments = <<>>
    /\ tx = [p \in AllProcs |-> IdleTx]
    /\ result = [p \in AllProcs |-> NoResult]
    /\ calls = 0
    /\ ServiceInit

\* The call made together with an approval of complaint 2: an approval of
\* complaint 3 or a payment to m1 (3 is more than the balance).
SecondCalls ==
    {ApproveCall(3, "admin", amt) : amt \in {1, 2}}
    \cup {PayCall("m1", 1, amt, FALSE) : amt \in {1, 2, 3}}

\* A caller issues two calls at once; each waits for its transaction to start.
InvokeTogether ==
    /\ \A p \in Procs : tx[p].status = "idle" /\ result[p] = NoResult
    /\ \E amt \in {1, 2}, c \in SecondCalls :
         tx' = [p \in AllProcs |->
                  IF p = "p1"
                  THEN [IdleTx EXCEPT !.status = "waiting",
                                      !.call = ApproveCall(2, "admin", amt)]
                  ELSE IF p = "p2"
                  THEN [IdleTx EXCEPT !.status = "waiting", !.call = c]
                  ELSE tx[p]]
    /\ UNCHANGED <<db, result, calls, clock, alertVars>>

\* The transaction of a waiting call starts: snapshot and callback.
Start(p) ==
    /\ tx[p].status = "waiting"
    /\ LET snap == [complaints |-> complaints, funds |-> funds, now |-> clock]
       IN  tx' = [tx EXCEPT ![p] = [@ EXCEPT !.status = "active", !.snap = snap,
                                             !.out = Body(snap, tx[p].call)]]
    /\ UNCHANGED <<db, result, calls, clock, alertVars>>

SameMemberNext ==
    \/ InvokeTogether
    \/ \E p \in Procs :
          \/ Start(p)
          \/ Commit(p)
          \/ SerializationFailure(p)
          \/ Rollback(p)

SameMemberSpec == SameMemberInit /\ [][SameMemberNext]_vars

\* ------------------------------------------------------------- properties

\* The step in which the invocation of p ends (commit, refusal or rollback).
Finishes(p) == Active(p) /\ tx'[p].status = "idle"

\* No transaction that committed after the snapshot of p wrote a row.
Undisturbed(p) == tx[p].stale = {}

AllDone == \A p \in ScenarioProcs : result[p].kind # "none"
Succeeded == {p \in AllProcs : result[p].kind = "ok"}

\* C1: every ReliefFund row satisfies 0 <= amountDispersed <= totalAllocated
\* after any sequence of committed workflows, whatever the amounts passed.
C1_FundInvariant ==
    \A i \in DOMAIN funds :
        /\ 0 <= funds[i].amountDispersed
        /\ funds[i].amountDispersed <= funds[i].totalAllocated

\* C2: of N concurrent payments of 60 against a fund of 100, exactly one
\* commits and the others fail with InsufficientBalance or
\* SerializationConflict; never two commit.
C2_ExactlyOnePaymentCommits ==
    /\ Cardinality(Succeeded) <= 1
    /\ Len(payments) = Cardinality(Succeeded)
    /\ \A i \in DOMAIN funds : funds[i].amountDispersed <= funds[i].totalAllocated
    /\ AllDone =>
         /\ Cardinality(Succeeded) = 1
         /\ \A p \in ScenarioProcs \ Succeeded :
                result[p].kind \in {"InsufficientBalance", "SerializationConflict"}

\* All workers are done: one was paid, one was refused by the store and one
\* found the balance already spent.
C2_Witness ==
    /\ AllDone
    /\ \E p \in ScenarioProcs : result[p].kind = "ok"
    /\ \E p \in ScenarioProcs : result[p].kind = "SerializationConflict"
    /\ \E p \in ScenarioProcs : result[p].kind = "InsufficientBalance"
    /\ funds[1].amountDispersed = 60

\* C3: a payment asking for more than totalAllocated - amountDispersed fails
\* with InsufficientBalance carrying that available amount and the requested
\* one, and adds no Payment row and changes no fund row.
C3_InsufficientBalanceRejected ==
    [][\A p \in Procs :
         (/\ Finishes(p)
          /\ tx[p].call.op = "pay"
          /\ HasFund(tx[p].snap.funds, tx[p].call.memberId)
          /\ tx[p].call.amount >
               FundOf(tx[p].snap.funds, tx[p].call.memberId).totalAllocated
               - FundOf(tx[p].snap.funds, tx[p].call.memberId).amountDispersed)
         => /\ result'[p].kind = "InsufficientBalance"
            /\ result'[p].available =
                 FundOf(tx[p].snap.funds, tx[p].call.memberId).totalAllocated
                 - FundOf(tx[p].snap.funds, tx[p].call.memberId).amountDispersed
            /\ result'[p].requested = tx[p].call.amount
            /\ payments' = payments
            /\ funds' = funds]_vars

\* A payment of 2 was refused against a fund with 1 available.
C3_Witness ==
    \E p \in Procs :
        /\ result[p].op = "pay"
        /\ result[p].kind = "InsufficientBalance"
        /\ result[p].available = 1
        /\ result[p].requested = 2
        /\ payments = <<>>
        /\ \E i \in DOMAIN funds : funds[i].totalAllocated = 1 /\ funds[i].amountDispersed = 0

\* Approval rows of complaint id.
ApprovalsOf(as, id) == {i \in DOMAIN as : as[i].complaintId = id}

\* The invocation of p that ends now is an approval of a complaint (one that
\* existed when p started) which is already APPROVED in the committed rows: it
\* is the second approval of it.
SecondApproval(p) ==
    /\ Finishes(p)
    /\ tx[p].call.op = "approve"
    /\ tx[p].call.complaintId \in DOMAIN tx[p].snap.complaints
    /\ complaints[tx[p].call.complaintId].status = "APPROVED"

\* C4 as stated: the second approval of a complaint, sequential or concurrent,
\* fails with InvalidStateTransition and leaves one ApprovalRecord and one increment.
C4_SecondApprovalInvalidState ==
    [][\A p \in Procs :
         SecondApproval(p) =>
            /\ result'[p].kind = "InvalidStateTransition"
            /\ approvals' = approvals
            /\ funds' = funds]_vars

\* C4 amended: the second approval of a complaint adds no ApprovalRecord and no
\* increment; it fails with InvalidStateTransition when it started after the
\* first committed and with SerializationConflict when the two overlapped; no
\* complaint ever has two ApprovalRecords.
C4_NoDoubleApproval ==
    [][/\ \A p \in Procs :
            SecondApproval(p) =>
               /\ result'[p].kind =
                    IF tx[p].snap.complaints[tx[p].call.complaintId].status = "APPROVED"
                    THEN "InvalidStateTransition" ELSE "SerializationConflict"
               /\ approvals' = approvals
               /\ funds' = funds
       /\ \A id \in DOMAIN complaints' :
            Cardinality(ApprovalsOf(approvals', id)) =
                IF complaints'[id].status = "APPROVED" THEN 1 ELSE 0]_vars

\* Two overlapping approvals of the same complaint: one committed, the other
\* was refused by the store.
C4_Witness ==
    \E p, q \in Procs :
        /\ result[p].op = "approve" /\ result[p].kind = "ok"
        /\ result[q].op = "approve" /\ result[q].kind = "SerializationConflict"
        /\ Len(complaints) = 1
        /\ Len(approvals) = 1
        /\ payments = <<>>

\* C5: the get-or-create step run N times concurrently for a member without a
\* fund row leaves exactly one fund row for it, with zero balances.
C5_OneFundRow ==
    /\ Cardinality(FundRows(funds, "m1")) <= 1
    /\ \A i \in DOMAIN funds : funds[i] = NewFund("m1")
    /\ (AllDone \/ Succeeded # {}) => Cardinality(FundRows(funds, "m1")) = 1

\* All workers ran the step together; one created the row, the others were refused.
C5_Witness ==
    /\ AllDone
    /\ Cardinality(Succeeded) = 1
    /\ \E p \in ScenarioProcs : result[p].op = "file" /\ result[p].kind = "SerializationConflict"
    /\ \E p \in ScenarioProcs : result[p].op = "bulk" /\ result[p].kind # "none"
    /\ funds = <<NewFund("m1")>>

\* C6: filing for an unknown member fails with MemberNotFound, for an inactive
\* one with MemberInactive, and creates no Complaint and no ReliefFund row.
C6_InvalidMemberRejected ==
    [][\A p \in Procs :
         (Finishes(p) /\ tx[p].call.op = "file" /\ tx[p].call.memberId \notin ActiveMembers)
         => /\ result'[p].kind =
                 IF tx[p].call.memberId \in InactiveMembers
                 THEN "MemberInactive" ELSE "MemberNotFound"
            /\ complaints' = complaints
            /\ funds' = funds]_vars

\* Both refusals have happened and nothing was created.
C6_Witness ==
    \E p, q \in Procs :
        /\ result[p].op = "file" /\ result[p].kind = "MemberNotFound"
        /\ result[q].op = "file" /\ result[q].kind = "MemberInactive"
        /\ complaints = <<>>
        /\ funds = <<>>

\* C7: filing for an active member succeeds (when no other transaction committed
\* meanwhile; otherwise the store may refuse it) and adds exactly one FILED
\* complaint of that member; a missing fund row is created with zero balances, an
\* existing one is left as it is.
C7_FileComplaintEffect ==
    [][\A p \in Procs :
         (Finishes(p) /\ tx[p].call.op = "file" /\ tx[p].call.memberId \in ActiveMembers)
         => /\ Undisturbed(p) => result'[p].kind = "ok"
            /\ result'[p].kind \in {"ok", "SerializationConflict"}
            /\ result'[p].kind = "ok" =>
                 /\ complaints' = Append(complaints,
                       [memberId |-> tx[p].call.memberId, status |-> "FILED"])
                 /\ funds' = IF HasFund(funds, tx[p].call.memberId) THEN funds
                             ELSE Append(funds, NewFund(tx[p].call.memberId))
                 /\ approvals' = approvals
                 /\ payments' = payments
            /\ result'[p].kind # "ok" => db' = db]_vars

\* A second complaint was filed by a member whose fund already held an
\* allocation of 2: the fund row is as the approval left it.
C7_Witness ==
    \E p \in Procs :
        /\ result[p].op = "file" /\ result[p].kind = "ok"
        /\ Len(complaints) = 2
        /\ complaints[1].status = "APPROVED"
        /\ complaints[2] = [memberId |-> complaints[1].memberId, status |-> "FILED"]
        /\ funds = <<[memberId |-> complaints[1].memberId,
                      totalAllocated |-> 2, amountDispersed |-> 0]>>

\* C8: a successful approval commits together: status APPROVED, one
\* ApprovalRecord with the call's complaintId, approver and amount, and
\* totalAllocated of the owner's fund increased by exactly that amount, with
\* amountDispersed unchanged.
C8_ApproveEffect ==
    [][\A p \in Procs :
         (Finishes(p) /\ tx[p].call.op = "approve" /\ result'[p].kind = "ok")
         => LET c == tx[p].call
                owner == complaints[c.complaintId].memberId
            IN  /\ complaints[c.complaintId].status = "FILED"
                /\ complaints' = [complaints EXCEPT ![c.complaintId].status = "APPROVED"]
                /\ approvals' = Append(approvals,
                      [complaintId |-> c.complaintId, approvedById |-> c.by,
                       amountAllocated |-> c.amount])
                /\ Cardinality(FundRows(funds, owner)) = 1
                /\ DOMAIN funds' = DOMAIN funds
                /\ \A i \in DOMAIN funds :
                     /\ funds'[i].memberId = funds[i].memberId
                     /\ funds'[i].amountDispersed = funds[i].amountDispersed
                     /\ funds'[i].totalAllocated =
                          IF funds[i].memberId = owner
                          THEN funds[i].totalAllocated + c.amount
                          ELSE funds[i].totalAllocated
                /\ payments' = payments]_vars

\* A complaint was approved with 2: one record, and the fund holds 2.
C8_Witness ==
    \E p \in Procs :
        /\ result[p].op = "approve" /\ result[p].kind = "ok"
        /\ Len(complaints) = 1 /\ complaints[1].status = "APPROVED"
        /\ approvals = <<[complaintId |-> 1, approvedById |-> "admin", amountAllocated |-> 2]>>
        /\ funds = <<[memberId |-> complaints[1].memberId,
                      totalAllocated |-> 2, amountDispersed |-> 0]>>

\* C9: an approval with amountAllocated <= 0 of a FILED complaint fails with
\* InvalidAmount and writes nothing: the complaint stays FILED, no
\* ApprovalRecord is created and no fund changes.
C9_NonPositiveApprovalRejected ==
    [][\A p \in Procs :
         (/\ Finishes(p)
          /\ tx[p].call.op = "approve"
          /\ tx[p].call.amount <= 0
          /\ tx[p].call.complaintId \in DOMAIN tx[p].snap.complaints
          /\ tx[p].snap.complaints[tx[p].call.complaintId].status = "FILED")
         => /\ result'[p].kind = "InvalidAmount"
            /\ complaints' = complaints
            /\ approvals' = approvals
            /\ funds' = funds]_vars

\* C10: a payment of at most totalAllocated - amountDispersed (equality
\* included) succeeds (when no other transaction committed meanwhile), creates
\* exactly one COMPLETED Payment of that amount, adds exactly the amount to
\* amountDispersed and leaves totalAllocated unchanged.
C10_PaymentEffect ==
    [][\A p \in Procs :
         (/\ Finishes(p)
          /\ tx[p].call.op = "pay"
          /\ ~tx[p].call.simulateFailure
          /\ HasFund(tx[p].snap.funds, tx[p].call.memberId)
          /\ tx[p].call.amount <=
               FundOf(tx[p].snap.funds, tx[p].call.memberId).totalAllocated
               - FundOf(tx[p].snap.funds, tx[p].call.memberId).amountDispersed)
         => LET c == tx[p].call
            IN  /\ Undisturbed(p) => result'[p].kind = "ok"
                /\ result'[p].kind \in {"ok", "SerializationConflict"}
                /\ result'[p].kind # "ok" => db' = db
                /\ result'[p].kind = "ok" =>
                     /\ payments' = Append(payments,
                           [memberId |-> c.memberId, complaintId |-> c.complaintId,
                            amount |-> c.amount, status |-> "COMPLETED",
                            transactionId |-> TransactionId(tx[p].snap.now)])
                     /\ DOMAIN funds' = DOMAIN funds
                     /\ \A i \in DOMAIN funds :
                          /\ funds'[i].memberId = funds[i].memberId
                          /\ funds'[i].totalAllocated = funds[i].totalAllocated
                          /\ funds'[i].amountDispersed =
                               IF funds[i].memberId = c.memberId
                               THEN funds[i].amountDispersed + c.amount
                               ELSE funds[i].amountDispersed
                     /\ AvailableBalance(FundOf(funds', c.memberId)) =
                          AvailableBalance(FundOf(funds, c.memberId)) - c.amount
                     /\ complaints' = complaints
                     /\ approvals' = approvals]_vars

\* The whole available balance of 2 was paid in one payment.
C10_Witness ==
    \E p \in Procs :
        /\ result[p].op = "pay" /\ result[p].kind = "ok"
        /\ Len(payments) = 1
        /\ payments[1].amount = 2 /\ payments[1].status = "COMPLETED"
        /\ \E i \in DOMAIN funds :
             /\ funds[i].memberId = payments[1].memberId
             /\ funds[i].totalAllocated = 2
             /\ funds[i].amountDispersed = 2

\* C11: a payment call with amount <= 0 is rejected: it creates no Payment row
\* and does not change amountDispersed of any fund.
C11_NonPositivePaymentRejected ==
    [][\A p \in Procs :
         (Finishes(p) /\ tx[p].call.op = "pay" /\ tx[p].call.amount <= 0)
         => /\ result'[p].kind # "ok"
            /\ payments' = payments
            /\ funds' = funds]_vars

\* C12: a payment for a member that has no ReliefFund row fails with
\* FundNotFound, creates no fund row and creates no Payment row.
C12_PaymentWithoutFund ==
    [][\A p \in Procs :
         (/\ Finishes(p)
          /\ tx[p].call.op = "pay"
          /\ ~HasFund(tx[p].snap.funds, tx[p].call.memberId))
         => /\ result'[p].kind = "FundNotFound"
            /\ funds' = funds
            /\ payments' = payments]_vars

\* m1 has a fund row, m2 has none; a payment was refused for lack of a fund
\* row and there is still no row for m2 and no payment.
C12_Witness ==
    \E p \in Procs :
        /\ result[p].op = "pay" /\ result[p].kind = "FundNotFound"
        /\ HasFund(funds, "m1") /\ ~HasFund(funds, "m2")
        /\ payments = <<>>

\* C13: registering 3 complaints for 3 distinct members without fund rows
\* returns complaintsCreated = 3 and fundsInitialized = 3; registering the
\* identical batch again returns 0 and 0 and adds no Complaint and no ReliefFund
\* row.
C13_BulkRerunAddsNothing ==
    [][\A p \in ScenarioProcs :
         (/\ Finishes(p)
          /\ tx[p].call = BulkCall(ExampleBatch)
          /\ result'[p].kind = "ok")
         => IF complaints = <<>>
            THEN /\ result'[p].complaintsCreated = 3
                 /\ result'[p].fundsInitialized = 3
                 /\ Len(complaints') = 3
                 /\ Len(funds') = 3
            ELSE /\ result'[p].complaintsCreated = 0
                 /\ result'[p].fundsInitialized = 0
                 /\ complaints' = complaints
                 /\ funds' = funds]_vars

\* C14: for any batch (repeated memberIds and members with funds included) a
\* committed bulk registration reports as fundsInitialized the number of
\* distinct memberIds of the batch that had no fund row; each of them has
\* exactly one zero-balance row afterwards; the fund rows that existed are
\* unchanged; complaintsCreated is the number of Complaint rows inserted.
C14_BulkCounts ==
    [][\A p \in Procs :
         (Finishes(p) /\ tx[p].call.op = "bulk" /\ result'[p].kind = "ok")
         => LET ms == Range(tx[p].call.batch)
                lacking == {m \in ms : ~HasFund(funds, m)}
            IN  /\ result'[p].fundsInitialized = Cardinality(lacking)
                /\ Len(funds') = Len(funds) + Cardinality(lacking)
                /\ \A i \in DOMAIN funds : funds'[i] = funds[i]
                /\ \A m \in ms : Cardinality(FundRows(funds', m)) = 1
                /\ \A m \in lacking : FundOf(funds', m) = NewFund(m)
                /\ result'[p].complaintsCreated = Len(complaints') - Len(complaints)
                /\ \A i \in DOMAIN complaints : complaints'[i] = complaints[i]
                /\ \A i \in DOMAIN complaints' \ DOMAIN complaints :
                     /\ complaints'[i].memberId \in ms
                     /\ complaints'[i].status = "FILED"
                /\ approvals' = approvals
                /\ payments' = payments]_vars

\* A batch naming m2 twice initialised one fund; a later batch naming m1 and m2
\* initialised one more (m2 had its row already).
C14_Witness ==
    \E p, q \in Procs :
        /\ p # q
        /\ result[p].op = "bulk" /\ result[p].kind = "ok"
        /\ result[p].complaintsCreated = 2 /\ result[p].fundsInitialized = 1
        /\ result[q].op = "bulk" /\ result[q].kind = "ok"
        /\ result[q].complaintsCreated = 2 /\ result[q].fundsInitialized = 1
        /\ funds = <<NewFund("m2"), NewFund("m1")>>
        /\ Len(complaints) = 4

\* C15: in each of the four workflows the error the caller receives is the
\* original error raised inside the unit of work, unchanged, not a wrapped or
\* generic failure.
C15_OriginalErrorReraised ==
    \A p \in Procs :
        result[p].kind \notin {"none", "ok"} => ~result[p].wrapped

\* C16: an invocation that ends in an error at any step (the simulated gateway
\* failure and a failure of the bulk registration after its first step
\* included) leaves the Complaint, ReliefFund, ApprovalRecord and Payment rows
\* exactly as they were: rows change only in the step in which an invocation
\* succeeds, and a bulk registration commits its whole batch or nothing.
C16_ErrorLeavesNoTrace ==
    [][/\ \A p \in Procs : (Finishes(p) /\ result'[p].kind # "ok") => db' = db
       /\ db' # db => \E p \in Procs : Finishes(p) /\ result'[p].kind = "ok"
       /\ \A p \in Procs :
            (Finishes(p) /\ tx[p].call.op = "bulk")
            => \/ db' = db /\ result'[p].kind # "ok"
               \/ /\ result'[p].kind = "ok"
                  /\ Len(complaints') = Len(complaints) + Len(tx[p].call.batch)
                  /\ \A m \in Range(tx[p].call.batch) : HasFund(funds', m)]_vars

\* A bulk registration of m1 and m2 had inserted its complaints when its fund
\* step met the row a concurrent filing had created: it failed and none of its
\* complaints is there.  Afterwards a payment hit the simulated gateway failure
\* and left no Payment row.
C16_Witness ==
    \E p, q \in Procs :
        /\ result[p].op = "bulk" /\ result[p].kind = "SerializationConflict"
        /\ result[q].op = "pay" /\ result[q].kind = "GatewayUnavailable"
        /\ complaints = <<[memberId |-> "m1", status |-> "FILED"]>>
        /\ funds = <<NewFund("m1")>>
        /\ payments = <<>>

\* C17: over any sequence of the workflows a complaint's status only moves
\* forward: an APPROVED complaint is APPROVED in every later state, no step
\* changes a status to FILED and no complaint is deleted or given to another
\* member.
C17_StatusOnlyForward ==
    [][\A id \in DOMAIN complaints :
         /\ id \in DOMAIN complaints'
         /\ complaints'[id].memberId = complaints[id].memberId
         /\ complaints[id].status = "APPROVED" => complaints'[id].status = "APPROVED"
         /\ complaints'[id].status # complaints[id].status
              => complaints[id].status = "FILED" /\ complaints'[id].status = "APPROVED"]_vars

\* A complaint was approved and a later approval of it was refused: it is
\* still APPROVED, beside a complaint that is still FILED.
C17_Witness ==
    \E p, q \in Procs :
        /\ result[p].op = "approve" /\ result[p].kind = "ok"
        /\ result[q].op = "approve" /\ result[q].kind = "InvalidStateTransition"
        /\ Len(complaints) = 2
        /\ complaints[1].status = "APPROVED"
        /\ complaints[2].status = "FILED"
        /\ Len(approvals) = 1

\* C18: in every reachable state a complaint has exactly one ApprovalRecord if
\* it is APPROVED and none if it is FILED (and every record belongs to a
\* complaint); an ApprovalRecord, once created, is never changed or removed.
C18_OneApprovalRecord ==
    /\ [](/\ \A id \in DOMAIN complaints :
               Cardinality(ApprovalsOf(approvals, id)) =
                   IF complaints[id].status = "APPROVED" THEN 1 ELSE 0
          /\ \A i \in DOMAIN approvals : approvals[i].complaintId \in DOMAIN complaints)
    /\ [][\A i \in DOMAIN approvals :
            i \in DOMAIN approvals' /\ approvals'[i] = approvals[i]]_vars

\* One complaint is approved and has its record, the other is filed and has
\* none; a payment was made after the approval and the record is as it was.
C18_Witness ==
    /\ Len(complaints) = 2
    /\ complaints[1].status = "APPROVED"
    /\ complaints[2].status = "FILED"
    /\ approvals = <<[complaintId |-> 1, approvedById |-> "admin", amountAllocated |-> 2]>>
    /\ Len(payments) = 1
    /\ \E p \in Procs : result[p].op = "pay" /\ result[p].kind = "ok"

C20_TimeoutAborts ==
    [][\A p \in Procs :
         Finishes(p)
         => LET exceeded == \/ tx[p].waited > 5000
                            \/ tx[p].elapsed >
                                 (IF tx[p].call.op = "bulk" THEN 60000 ELSE 30000)
            IN  /\ exceeded => result'[p].kind = "TransactionTimeout" /\ db' = db
                /\ ~exceeded => result'[p].kind # "TransactionTimeout"]_vars

\* A bulk registration that would have inserted complaints and funds ran out
\* of time and left nothing, while another invocation committed its complaint.
C20_Witness ==
    \E p, q \in Procs :
        /\ result[p].op = "bulk" /\ result[p].kind = "TransactionTimeout"
        /\ result[q].op = "file" /\ result[q].kind = "ok"
        /\ complaints = <<[memberId |-> "m1", status |-> "FILED"]>>
        /\ funds = <<NewFund("m1")>>

\* C21: no two Payment rows ever share a transactionId, payments made
\* concurrently or at the same clock instant included.
C21_TransactionIdsUnique ==
    \A i, j \in DOMAIN payments :
        i # j => payments[i].transactionId # payments[j].transactionId

\* C22: getFloodAlerts answers from the cache only when Redis is ready and an
\* entry is there; with no entry, with Redis not ready or with a failing cache
\* read it returns the list read from the database; a failure of the cache
\* (reading or writing) never makes it fail or return anything else.
C22_CacheFallsBackToDatabase ==
    [][\A c \in Callers :
         /\ (/\ svc[c].pc = "idle" /\ svc'[c] # svc[c]
             /\ svc'[c].pc = "idle" /\ svc'[c].ret.kind = "ok")
            => redisReady /\ cache.present /\ svc'[c].ret.list = cache.value
         /\ (svc[c].pc = "db" /\ svc'[c].pc = "set")
            => svc'[c].local = FindMany(alerts)
         /\ (svc[c].pc = "set" /\ svc'[c] # svc[c])
            => svc'[c].pc = "idle" /\ svc'[c].ret = Return("ok", svc[c].local)
         /\ (svc'[c].ret.kind = "DbError" /\ svc'[c] # svc[c])
            => svc[c].pc = "db"]_vars

\* Redis is down and still holds an entry without the newest alert; a call
\* has returned the full list with the dates the database gives.
C22_Witness ==
    \E c \in Callers :
        /\ ~redisReady
        /\ cache.present
        /\ Len(alerts) = 2
        /\ cache.value # Stringify(FindMany(alerts))
        /\ svc[c].pc = "idle"
        /\ svc[c].ret = Return("ok", FindMany(alerts))

\* C23: createFloodAlert deletes the "flood_alerts" entry only after the alert
\* row is committed, never before; it never writes a list into the cache; when
\* the insert fails the entry is left untouched.
C23_InvalidateAfterCommit ==
    [][/\ \A c \in Callers :
            /\ (svc[c].pc = "idle" /\ svc'[c].pc = "inv")
               => cache' = cache /\ svc'[c].newId \in AlertIds(alerts')
            /\ (svc'[c].ret.kind = "CreateError" /\ svc'[c] # svc[c])
               => cache' = cache /\ alerts' = alerts
            /\ (svc[c].pc = "inv" /\ svc'[c] # svc[c])
               => /\ svc[c].newId \in AlertIds(alerts)
                  /\ cache' \in {cache, NoEntry}
                  /\ svc'[c].ret = Return("created", <<alerts[svc[c].newId]>>)
       /\ (cache' # cache /\ cache'.present)
            => \E c \in Callers : svc[c].pc = "set" /\ svc'[c].pc = "idle"]_vars

\* One alert was created and its call returned, another insert failed and left
\* the entry a later read had cached.
C23_Witness ==
    \E c, d \in Callers :
        /\ svc[c].pc = "idle" /\ svc[c].ret.kind = "created"
        /\ svc[d].pc = "idle" /\ svc[d].ret.kind = "CreateError"
        /\ Len(alerts) = 1
        /\ cache = [present |-> TRUE, value |-> Stringify(FindMany(alerts))]

\* C24: an approval of a FILED complaint whose owner has no ReliefFund row
\* fails with FundNotFound, and the status update and the ApprovalRecord
\* written earlier in the same unit of work are discarded: the complaint is
\* still FILED and has no ApprovalRecord.
C24_ApprovalWithoutFund ==
    [][\A p \in Procs :
         (/\ Finishes(p)
          /\ tx[p].call.op = "approve"
          /\ tx[p].call.complaintId \in DOMAIN tx[p].snap.complaints
          /\ tx[p].snap.complaints[tx[p].call.complaintId].status = "FILED"
          /\ ~HasFund(tx[p].snap.funds,
                      tx[p].snap.complaints[tx[p].call.complaintId].memberId))
         => LET id == tx[p].call.complaintId
            IN  /\ Len(tx[p].out.log) = 2
                /\ result'[p].kind = "FundNotFound"
                /\ complaints' = complaints
                /\ complaints'[id].status = "FILED"
                /\ ApprovalsOf(approvals', id) = {}
                /\ funds' = funds]_vars

\* Two complaints were inserted without funds; the approval of the second was
\* refused for lack of a fund row and both are still FILED without a record.
C24_Witness ==
    \E p \in Procs :
        /\ result[p].op = "approve" /\ result[p].kind = "FundNotFound"
        /\ complaints = <<[memberId |-> "m1", status |-> "FILED"],
                          [memberId |-> "m2", status |-> "FILED"]>>
        /\ approvals = <<>>
        /\ funds = <<>>

\* Sum of the amounts of the Payment rows of member m.
RECURSIVE PaidTo(_, _)
PaidTo(ps, m) ==
    IF ps = <<>> THEN 0
    ELSE (IF Head(ps).memberId = m THEN Head(ps).amount ELSE 0) + PaidTo(Tail(ps), m)

\* Sum of amountAllocated over the ApprovalRecords of the complaints owned by m.
RECURSIVE ApprovedFor(_, _, _)
ApprovedFor(as, cs, m) ==
    IF as = <<>> THEN 0
    ELSE (IF cs[Head(as).complaintId].memberId = m THEN Head(as).amountAllocated ELSE 0)
         + ApprovedFor(Tail(as), cs, m)

\* C25: in every reachable state each member's amountDispersed equals the sum
\* of the amounts of that member's Payment rows; a member without a fund row
\* has no Payment row.
C25_DispersedMatchesPayments ==
    \A m \in MemberIds :
        IF HasFund(funds, m)
        THEN \A i \in FundRows(funds, m) : funds[i].amountDispersed = PaidTo(payments, m)
        ELSE \A i \in DOMAIN payments : payments[i].memberId # m

\* Of an allocation of 2, 1 was paid: one Payment row of 1 and amountDispersed 1.
C25_Witness ==
    /\ Len(payments) = 1
    /\ payments[1].amount = 1
    /\ funds = <<[memberId |-> payments[1].memberId,
                  totalAllocated |-> 2, amountDispersed |-> 1]>>

\* C26: in every reachable state each member's totalAllocated equals the sum of
\* amountAllocated over the ApprovalRecords of the complaints that member owns.
C26_AllocatedMatchesApprovals ==
    /\ \A i \in DOMAIN approvals : approvals[i].complaintId \in DOMAIN complaints
    /\ \A i \in DOMAIN funds :
         funds[i].totalAllocated = ApprovedFor(approvals, complaints, funds[i].memberId)

\* m1 and m2 were registered together and the complaint of m1 was approved
\* with 1: the fund of m1 holds 1, the fund of m2 holds 0.
C26_Witness ==
    /\ approvals = <<[complaintId |-> 1, approvedById |-> "admin", amountAllocated |-> 1]>>
    /\ Len(complaints) = 2
    /\ funds = <<[memberId |-> "m1", totalAllocated |-> 1, amountDispersed |-> 0],
                 [memberId |-> "m2", totalAllocated |-> 0, amountDispersed |-> 0]>>

\* C27: after any sequence of committed filings and bulk registrations, run
\* one after the other or concurrently, every Complaint's memberId has a
\* ReliefFund row.
C27_ComplaintHasFund ==
    \A id \in DOMAIN complaints : HasFund(funds, complaints[id].memberId)

\* Two first filings for the same member ran together: one committed its
\* complaint with the fund row, the other was refused; then a batch added
\* complaints for a member with and a member without a fund row.
C27_Witness ==
    \E p, q \in Procs :
        /\ result[p].op = "bulk" /\ result[p].kind = "ok"
        /\ result[q].op = "file" /\ result[q].kind = "SerializationConflict"
        /\ Len(complaints) = 3
        /\ Cardinality({funds[i].memberId : i \in DOMAIN funds}) = 2
        /\ Len(funds) = 2

\* C28: when two approvals of different FILED complaints of one member are
\* issued together and both commit, totalAllocated has grown by the sum of
\* both amounts; when an approval and a payment for the member are issued
\* together and both commit, totalAllocated and amountDispersed each hold their
\* own increment.  Every commit adds its amount to the value the fund row has
\* at that moment.
C28_NoLostIncrement ==
    /\ []((result["p1"].kind = "ok" /\ result["p2"].kind = "ok")
          => IF result["p2"].op = "approve"
             THEN /\ Len(approvals) = 3
                  /\ funds = <<[memberId |-> "m1",
                                totalAllocated |-> 2 + approvals[2].amountAllocated
                                                     + approvals[3].amountAllocated,
                                amountDispersed |-> 0]>>
             ELSE /\ Len(approvals) = 2 /\ Len(payments) = 1
                  /\ funds = <<[memberId |-> "m1",
                                totalAllocated |-> 2 + approvals[2].amountAllocated,
                                amountDispersed |-> payments[1].amount]>>)
    /\ [][\A p \in Procs :
            (Finishes(p) /\ result'[p].kind = "ok")
            => funds' = <<[memberId |-> "m1",
                           totalAllocated |-> funds[1].totalAllocated +
                               (IF tx[p].call.op = "approve" THEN tx[p].call.amount ELSE 0),
                           amountDispersed |-> funds[1].amountDispersed +
                               (IF tx[p].call.op = "pay" THEN tx[p].call.amount ELSE 0)]>>]_vars

\* Approvals of 1 and of 2 were issued together and both committed: 2 + 1 + 2.
C28_Witness ==
    /\ result["p1"].op = "approve" /\ result["p1"].kind = "ok"
    /\ result["p2"].op = "approve" /\ result["p2"].kind = "ok"
    /\ Len(approvals) = 3
    /\ approvals[2].amountAllocated # approvals[3].amountAllocated
    /\ funds = <<[memberId |-> "m1", totalAllocated |-> 5, amountDispersed |-> 0]>>

\* C29: once createFloodAlert has returned, every getFloodAlerts call that
\* starts afterwards returns a list containing the new alert.
C29_ReadsSeeCreatedAlerts ==
    \A c \in Callers :
        (svc[c].pc = "idle" /\ svc[c].ret.kind = "ok")
        => svc[c].mustSee \subseteq AlertIds(svc[c].ret.list)

\* C30: every committed Payment row references a complaintId of an existing
\* Complaint owned by the Payment's memberId.
C30_PaymentReferencesOwnComplaint ==
    \A i \in DOMAIN payments :
        /\ payments[i].complaintId \in DOMAIN complaints
        /\ complaints[payments[i].complaintId].memberId = payments[i].memberId

====
